---- MODULE Spec2Model ----
(***************************************************************************)
(* Model of the PDT (pattern day trading) tracker of snoball's             *)
(* trading-core package (class PDTTracker).                                *)
(*                                                                         *)
(* Time is the value of `new Date()`, counted in ticks since the Unix      *)
(* epoch; TicksPerDay ticks make one calendar day.  Day 0 is 1970-01-01,   *)
(* a Thursday.  The local time zone is taken to be UTC without daylight    *)
(* saving shifts, so Date.setDate(getDate() +/- 5) moves the instant by    *)
(* exactly 5 * TicksPerDay ticks.  One call of a method reads one instant. *)
(***************************************************************************)
EXTENDS Integers, Sequences, FiniteSets, TLC

----------------------------------------------------------------------------
(* Bounds of the model *)

MaxDay == 7

TicksPerDay == 1

(* Orders and day trades are submitted at the instants 0..LastOrderTick; the
   clock runs on to the end of day MaxDay *)
LastOrderTick == 0

MaxTrades == 4

MaxOrders == 2

MaxNow == (MaxDay + 1) * TicksPerDay - 1

Days == 0..MaxDay

----------------------------------------------------------------------------
(* Program constants *)

PDT_LIMIT == 3

PDT_THRESHOLD == 25000

WindowDays == 5

Infinity == 1000000

Null == -1

Undefined == "undefined"

EquityValues == {10000, 25000}

Symbols == {"AAPL", "TEST"}

Sides == {"buy", "sell"}

----------------------------------------------------------------------------
(* State *)

VARIABLES accountValue, dayTrades, now, orders, ret, calc

vars == <<accountValue, dayTrades, now, orders, ret, calc>>

(* new Date().toISOString().split('T')[0]: the UTC calendar date of an instant *)
DateKey(t) == t \div TicksPerDay

(* Date.setDate(getDate() + n): the same time of day, n calendar days later *)
SetDate(t, n) == t + n * TicksPerDay

(* The side property of a stored DayTrade: the type has no such field *)
DayTradeSide(t) == Undefined

----------------------------------------------------------------------------
(* Pure reads *)

isPatternDayTrader_gt == accountValue > PDT_THRESHOLD

isPatternDayTrader == accountValue >= PDT_THRESHOLD

InWindow(trade, fiveDaysAgo) == trade.tradeDate >= fiveDaysAgo

RECURSIVE CountFrom(_, _)
CountFrom(d, fiveDaysAgo) ==
  IF d > MaxDay THEN 0
  ELSE Len(SelectSeq(dayTrades[d], LAMBDA t : InWindow(t, fiveDaysAgo)))
       + CountFrom(d + 1, fiveDaysAgo)

getDayTradeCount == CountFrom(0, SetDate(now, -WindowDays))

canDayTrade_stale ==
  IF isPatternDayTrader THEN TRUE
  ELSE getDayTradeCount - 1 < PDT_LIMIT

canDayTrade ==
  IF isPatternDayTrader THEN TRUE
  ELSE getDayTradeCount < PDT_LIMIT

Max(a, b) == IF a >= b THEN a ELSE b

getRemainingDayTrades_nomax ==
  IF isPatternDayTrader THEN Infinity
  ELSE PDT_LIMIT - getDayTradeCount

getRemainingDayTrades ==
  IF isPatternDayTrader THEN Infinity
  ELSE Max(0, PDT_LIMIT - getDayTradeCount)

(* The loop of getNextTradeDate over one day's list, carrying oldestTrade
   (Null while no trade has been picked) *)
RECURSIVE OldestInList(_, _, _, _)
OldestInList(trades, i, fiveDaysAgo, oldest) ==
  IF i > Len(trades) THEN oldest
  ELSE IF InWindow(trades[i], fiveDaysAgo)
          /\ (oldest = Null \/ trades[i].tradeDate < oldest)
       THEN OldestInList(trades, i + 1, fiveDaysAgo, trades[i].tradeDate)
       ELSE OldestInList(trades, i + 1, fiveDaysAgo, oldest)

RECURSIVE OldestFrom(_, _, _)
OldestFrom(d, fiveDaysAgo, oldest) ==
  IF d > MaxDay THEN oldest
  ELSE OldestFrom(d + 1, fiveDaysAgo,
                  OldestInList(dayTrades[d], 1, fiveDaysAgo, oldest))

oldestTradeDate == OldestFrom(0, SetDate(now, -WindowDays), Null)

getNextTradeDate ==
  IF isPatternDayTrader \/ getDayTradeCount < PDT_LIMIT THEN Null
  ELSE IF oldestTradeDate # Null THEN SetDate(oldestTradeDate, WindowDays)
  ELSE Null

----------------------------------------------------------------------------
(* Operations *)

RECURSIVE StoredFrom(_)
StoredFrom(d) == IF d > MaxDay THEN 0 ELSE Len(dayTrades[d]) + StoredFrom(d + 1)

(* Number of DayTrade records held by the map, over all keys *)
TotalTrades == StoredFrom(0)

(* crypto.randomUUID(): the k-th identifier drawn while the n-th record is built *)
randomUUID(n, k) == 100 + 10 * n + k

(* The id of the next order the caller submits: ids are unique *)
NextOrderId == Len(orders) + 1

(* No indicator has been asked for *)
CalcIdle == [fn |-> "none", prices |-> <<>>, period |-> 1, mult |-> 0, out |-> <<>>]

Init ==
  /\ accountValue \in EquityValues
  /\ dayTrades = [d \in Days |-> <<>>]
  /\ now = 0
  /\ orders = <<>>
  /\ ret = [op |-> "constructor", val |-> Null]
  /\ calc = CalcIdle

updateAccountValue(value) ==
  /\ accountValue' = value
  /\ ret' = [op |-> "updateAccountValue", val |-> Null]
  /\ UNCHANGED <<calc, dayTrades, now, orders>>

(* Array.prototype.find: index of the first stored trade on the symbol, 0 if none *)
RECURSIVE FindSymbol(_, _, _)
FindSymbol(trades, symbol, i) ==
  IF i > Len(trades) THEN 0
  ELSE IF trades[i].symbol = symbol THEN i
  ELSE FindSymbol(trades, symbol, i + 1)

NewDayTrade(order, oppositeOrder) ==
  [id          |-> randomUUID(TotalTrades + 1, 0),
   userId      |-> order.userId,
   symbol      |-> order.symbol,
   buyOrderId  |-> IF order.side = "buy" THEN order.id
                   ELSE oppositeOrder.buyOrderId,
   sellOrderId |-> IF order.side = "sell" THEN order.id
                   ELSE oppositeOrder.sellOrderId,
   tradeDate   |-> now,
   createdAt   |-> now]

addOrderOf_open(symbol, side, quantity) ==
  LET order    == [id |-> NextOrderId, userId |-> "u1", symbol |-> symbol,
                   side |-> side, quantity |-> quantity]
      today    == DateKey(now)
      open     == {i \in 1..Len(orders) :
                     /\ orders[i].day = today
                     /\ orders[i].symbol = symbol
                     /\ orders[i].side # side
                     /\ orders[i].accepted}
      first    == CHOOSE i \in open : \A j \in open : i <= j
      accepted == open = {} \/ canDayTrade
      dayTrade == [id          |-> randomUUID(TotalTrades + 1, 0),
                   userId      |-> order.userId,
                   symbol      |-> order.symbol,
                   buyOrderId  |-> IF side = "buy" THEN order.id ELSE orders[first].id,
                   sellOrderId |-> IF side = "sell" THEN order.id ELSE orders[first].id,
                   tradeDate   |-> now,
                   createdAt   |-> now]
  IN
  /\ Len(orders) < MaxOrders
  /\ now <= LastOrderTick
  /\ (open # {} /\ canDayTrade) => TotalTrades < MaxTrades
  /\ dayTrades' = IF open # {} /\ canDayTrade
                  THEN [dayTrades EXCEPT ![today] = Append(@, dayTrade)]
                  ELSE dayTrades
  /\ ret' = [op |-> "addOrder", val |-> accepted]
  /\ orders' = Append(orders, [id |-> order.id, symbol |-> symbol, side |-> side,
                               day |-> today, quantity |-> quantity,
                               accepted |-> accepted])
  /\ UNCHANGED <<calc, accountValue, now>>

addOrderOf_consume(symbol, side, quantity) ==
  LET order      == [id |-> NextOrderId, userId |-> "u1", symbol |-> symbol,
                     side |-> side, quantity |-> quantity]
      today      == DateKey(now)
      userTrades == dayTrades[today]
      found      == FindSymbol(userTrades, symbol, 1)
      completes  == found # 0 /\ order.side # DayTradeSide(userTrades[found])
      accepted   == ~completes \/ canDayTrade
  IN
  /\ Len(orders) < MaxOrders
  /\ now <= LastOrderTick
  /\ completes => TotalTrades < MaxTrades
  /\ dayTrades' = IF completes
                  THEN [dayTrades EXCEPT ![today] =
                          Append(userTrades, NewDayTrade(order, userTrades[found]))]
                  ELSE dayTrades
  /\ ret' = [op |-> "addOrder", val |-> accepted]
  /\ orders' = Append(orders, [id |-> order.id, symbol |-> symbol, side |-> side,
                               day |-> today, quantity |-> quantity,
                               accepted |-> accepted])
  /\ UNCHANGED <<calc, accountValue, now>>

(* addOrder applied to an order with the given symbol, side and quantity; the
   method reads id, userId, symbol and side only *)
addOrderOf(symbol, side, quantity) ==
  LET order      == [id |-> NextOrderId, userId |-> "u1", symbol |-> symbol,
                     side |-> side, quantity |-> quantity]
      today      == DateKey(now)
      userTrades == dayTrades[today]
      found      == FindSymbol(userTrades, symbol, 1)
  IN
  /\ Len(orders) < MaxOrders
  /\ now <= LastOrderTick
  /\ IF found # 0 /\ order.side # DayTradeSide(userTrades[found])
     THEN IF ~canDayTrade
          THEN /\ ret' = [op |-> "addOrder", val |-> FALSE]
               /\ orders' = Append(orders, [id |-> order.id, symbol |-> symbol,
                                            side |-> side, day |-> today,
                                            quantity |-> quantity,
                                            accepted |-> FALSE])
               /\ UNCHANGED <<calc, accountValue, dayTrades, now>>
          ELSE /\ TotalTrades < MaxTrades
               /\ dayTrades' = [dayTrades EXCEPT ![today] =
                                  Append(userTrades, NewDayTrade(order, userTrades[found]))]
               /\ ret' = [op |-> "addOrder", val |-> TRUE]
               /\ orders' = Append(orders, [id |-> order.id, symbol |-> symbol,
                                            side |-> side, day |-> today,
                                            quantity |-> quantity,
                                            accepted |-> TRUE])
               /\ UNCHANGED <<calc, accountValue, now>>
     ELSE /\ ret' = [op |-> "addOrder", val |-> TRUE]
          /\ orders' = Append(orders, [id |-> order.id, symbol |-> symbol,
                                       side |-> side, day |-> today,
                                            quantity |-> quantity,
                                       accepted |-> TRUE])
          /\ UNCHANGED <<calc, accountValue, dayTrades, now>>

(* addOrder on a well-formed order *)
addOrder(symbol, side) == addOrderOf(symbol, side, 10)

(* addOrder on a malformed order: an empty symbol or a quantity <= 0 *)
addOrderMalformed ==
  \E symbol \in Symbols \cup {""}, side \in Sides, quantity \in {0, 10} :
    /\ symbol = "" \/ quantity <= 0
    /\ addOrderOf(symbol, side, quantity)

(* updateAccountValue with a negative value *)
updateAccountValueNegative == updateAccountValue(-1)

addDayTrade ==
  LET today  == DateKey(now)
      trades == dayTrades[today]
  IN
  /\ TotalTrades < MaxTrades
  /\ now <= LastOrderTick
  /\ dayTrades' = [dayTrades EXCEPT ![today] =
                     Append(trades, [id          |-> randomUUID(TotalTrades + 1, 0),
                                     userId      |-> "test",
                                     symbol      |-> "TEST",
                                     buyOrderId  |-> randomUUID(TotalTrades + 1, 1),
                                     sellOrderId |-> randomUUID(TotalTrades + 1, 2),
                                     tradeDate   |-> now,
                                     createdAt   |-> now])]
  /\ ret' = [op |-> "addDayTrade", val |-> Null]
  /\ UNCHANGED <<calc, accountValue, now, orders>>

CallCanDayTrade ==
  /\ ret' = [op |-> "canDayTrade", val |-> canDayTrade]
  /\ UNCHANGED <<calc, accountValue, dayTrades, now, orders>>

CallGetDayTradeCount_prune ==
  /\ ret' = [op |-> "getDayTradeCount", val |-> getDayTradeCount]
  /\ dayTrades' = [d \in Days |->
                     SelectSeq(dayTrades[d],
                               LAMBDA t : t.tradeDate > SetDate(now, -WindowDays))]
  /\ UNCHANGED <<calc, accountValue, now, orders>>

CallGetDayTradeCount ==
  /\ ret' = [op |-> "getDayTradeCount", val |-> getDayTradeCount]
  /\ UNCHANGED <<calc, accountValue, dayTrades, now, orders>>

CallGetRemainingDayTrades ==
  /\ ret' = [op |-> "getRemainingDayTrades", val |-> getRemainingDayTrades]
  /\ UNCHANGED <<calc, accountValue, dayTrades, now, orders>>

CallGetNextTradeDate ==
  /\ ret' = [op |-> "getNextTradeDate", val |-> getNextTradeDate]
  /\ UNCHANGED <<calc, accountValue, dayTrades, now, orders>>

(* The system clock advances between calls *)
Tick ==
  /\ now < MaxNow
  /\ now' = now + 1
  /\ ret' = [op |-> "tick", val |-> Null]
  /\ UNCHANGED <<calc, accountValue, dayTrades, orders>>

Next ==
  \/ \E value \in EquityValues : updateAccountValue(value)
  \/ \E symbol \in Symbols, side \in Sides : addOrder(symbol, side)
  \/ addDayTrade
  \/ CallCanDayTrade
  \/ CallGetDayTradeCount
  \/ CallGetRemainingDayTrades
  \/ CallGetNextTradeDate
  \/ Tick

Spec == Init /\ [][Next]_vars

(* The tracker called with malformed input as well *)
NextInputs ==
  \/ Next
  \/ addOrderMalformed
  \/ updateAccountValueNegative

SpecInputs == Init /\ [][NextInputs]_vars

----------------------------------------------------------------------------
(* TradingCalculator: the indicator functions.

   A number is an exact rational <<n, d>> with d > 0 in lowest terms, so the
   arithmetic is that of the reals: the rounding of IEEE doubles is not
   modelled.  Math.sqrt is kept symbolic: a band value base + coef * sqrt(rad)
   is the record [base, coef, rad]. *)

(* Bounds of the indicator inputs *)

MaxLen == 4

MaxPrice == 3

MaxPeriod == 3

Multipliers == {0, 2}

RECURSIVE GCD(_, _)
GCD(a, b) == IF b = 0 THEN a ELSE GCD(b, a % b)

Abs(n) == IF n < 0 THEN -n ELSE n

(* The rational n / d, d # 0 *)
Rat(n, d) ==
  LET g == GCD(Abs(n), Abs(d))
  IN  IF d > 0 THEN <<n \div g, d \div g>> ELSE <<(-n) \div g, (-d) \div g>>

Num(n) == <<n, 1>>

RAdd(x, y) == Rat(x[1] * y[2] + y[1] * x[2], x[2] * y[2])

RSub(x, y) == Rat(x[1] * y[2] - y[1] * x[2], x[2] * y[2])

RMul(x, y) == Rat(x[1] * y[1], x[2] * y[2])

RDiv(x, y) == Rat(x[1] * y[2], x[2] * y[1])

RAbs(x) == <<Abs(x[1]), x[2]>>

(* A price series as numbers *)
Numbers(series) == [i \in 1..Len(series) |-> Num(series[i])]

(* Array.prototype.slice(from, to) on 0-based indices *)
Slice(values, from, to) == SubSeq(values, from + 1, to)

(* values.reduce((a, b) => a + b, 0) *)
RECURSIVE Reduce(_, _, _)
Reduce(values, i, acc) ==
  IF i > Len(values) THEN acc
  ELSE Reduce(values, i + 1, RAdd(acc, values[i]))

SumOf(values) == Reduce(values, 1, Num(0))

(* The loop of calculateMovingAverage, i the 0-based index *)
WindowMean_short(prices, period, i) ==
  RDiv(SumOf(Slice(prices, i - period + 2, i + 1)), Num(period))

(* One pass of the loop body: the mean of the window that ends at index i *)
WindowMean(prices, period, i) ==
  RDiv(SumOf(Slice(prices, i - period + 1, i + 1)), Num(period))

RECURSIVE MovingAverageLoop(_, _, _, _)
MovingAverageLoop(prices, period, i, result) ==
  IF ~(i < Len(prices)) THEN result
  ELSE MovingAverageLoop(prices, period, i + 1,
         Append(result, WindowMean(prices, period, i)))

calculateMovingAverage(prices, period) ==
  MovingAverageLoop(prices, period, period - 1, <<>>)

(* The loop of calculateEMA, i the 0-based index *)
RECURSIVE EMALoop(_, _, _, _)
EMALoop(prices, multiplier, i, ema) ==
  IF ~(i < Len(prices)) THEN ema
  ELSE EMALoop(prices, multiplier, i + 1,
         Append(ema, RAdd(RMul(RSub(prices[i + 1], ema[Len(ema)]), multiplier),
                          ema[Len(ema)])))

EMAMultiplier_period(period) == RDiv(Num(2), Num(period))

EMAMultiplier(period) == RDiv(Num(2), Num(period + 1))

calculateEMA(prices, period) ==
  IF Len(prices) < period THEN <<>>
  ELSE LET sma == RDiv(SumOf(Slice(prices, 0, period)), Num(period))
       IN  EMALoop(prices, EMAMultiplier(period), period, <<sma>>)

RECURSIVE RSILoop_all(_, _, _, _, _)
RSILoop_all(prices, period, i, gains, losses) ==
  IF ~(i <= Len(prices) - 1) THEN <<gains, losses>>
  ELSE LET change == RSub(prices[i + 1], prices[i])
       IN  IF change[1] > 0
           THEN RSILoop_all(prices, period, i + 1, RAdd(gains, change), losses)
           ELSE RSILoop_all(prices, period, i + 1, gains, RAdd(losses, RAbs(change)))

(* The loop of calculateRSI: <<gains, losses>> after the changes i..period *)
RECURSIVE RSILoop(_, _, _, _, _)
RSILoop(prices, period, i, gains, losses) ==
  IF ~(i <= period) THEN <<gains, losses>>
  ELSE LET change == RSub(prices[i + 1], prices[i])
       IN  IF change[1] > 0
           THEN RSILoop(prices, period, i + 1, RAdd(gains, change), losses)
           ELSE RSILoop(prices, period, i + 1, gains, RAdd(losses, RAbs(change)))

RSIValue_plain(avgGain, avgLoss) ==
  RDiv(Num(100), RAdd(Num(1), RDiv(avgGain, avgLoss)))

RSIValue(avgGain, avgLoss) ==
  RSub(Num(100), RDiv(Num(100), RAdd(Num(1), RDiv(avgGain, avgLoss))))

calculateRSI(prices, period) ==
  IF Len(prices) < period + 1 THEN Num(50)
  ELSE LET sums    == RSILoop(prices, period, 1, Num(0), Num(0))
           avgGain == RDiv(sums[1], Num(period))
           avgLoss == RDiv(sums[2], Num(period))
       IN  IF avgLoss = Num(0) THEN Num(100)
           ELSE RSIValue(avgGain, avgLoss)

(* The variance whose square root standardDeviation returns *)
Variance_sample(values) ==
  LET mean         == RDiv(SumOf(values), Num(Len(values)))
      squaredDiffs == [i \in 1..Len(values) |->
                         RMul(RSub(values[i], mean), RSub(values[i], mean))]
  IN  IF Len(values) = 1 THEN Num(0)
      ELSE RDiv(SumOf(squaredDiffs), Num(Len(values) - 1))

Variance(values) ==
  LET mean         == RDiv(SumOf(values), Num(Len(values)))
      squaredDiffs == [i \in 1..Len(values) |->
                         RMul(RSub(values[i], mean), RSub(values[i], mean))]
  IN  RDiv(SumOf(squaredDiffs), Num(Len(values)))

(* standardDeviation: the radicand of the square root it returns *)
standardDeviation(values) ==
  IF Len(values) = 0 THEN Num(0) ELSE Variance(values)

(* The loop of calculateBollingerBands: <<upper, lower>> *)
RECURSIVE BollingerLoop(_, _, _, _, _, _, _)
BollingerLoop(prices, period, stdDevMultiplier, middle, i, upper, lower) ==
  IF ~(i < Len(prices)) THEN <<upper, lower>>
  ELSE LET slice  == Slice(prices, i - period + 1, i + 1)
           stdDev == standardDeviation(slice)
           ma     == middle[i - period + 2]
       IN  BollingerLoop(prices, period, stdDevMultiplier, middle, i + 1,
             Append(upper, [base |-> ma, coef |-> Num(stdDevMultiplier), rad |-> stdDev]),
             Append(lower, [base |-> ma, coef |-> Num(-stdDevMultiplier), rad |-> stdDev]))

calculateBollingerBands(prices, period, stdDevMultiplier) ==
  LET middle == calculateMovingAverage(prices, period)
      bands  == BollingerLoop(prices, period, stdDevMultiplier, middle,
                              period - 1, <<>>, <<>>)
  IN  [upper |-> bands[1], middle |-> middle, lower |-> bands[2]]

(* The price series of at most MaxLen samples in 1..MaxPrice *)
SeriesSet == UNION {[1..n -> 1..MaxPrice] : n \in 0..MaxLen}

InitCalc ==
  /\ accountValue = 10000
  /\ dayTrades = [d \in Days |-> <<>>]
  /\ now = 0
  /\ orders = <<>>
  /\ ret = [op |-> "constructor", val |-> Null]
  /\ \E series \in SeriesSet, period \in 1..MaxPeriod, mult \in Multipliers :
       calc = [fn |-> "none", prices |-> series, period |-> period,
               mult |-> mult, out |-> <<>>]

CallMovingAverage ==
  /\ calc.fn = "none"
  /\ calc' = [calc EXCEPT !.fn = "calculateMovingAverage",
                          !.out = calculateMovingAverage(Numbers(calc.prices), calc.period)]
  /\ UNCHANGED <<accountValue, dayTrades, now, orders, ret>>

CallEMA ==
  /\ calc.fn = "none"
  /\ calc' = [calc EXCEPT !.fn = "calculateEMA",
                          !.out = calculateEMA(Numbers(calc.prices), calc.period)]
  /\ UNCHANGED <<accountValue, dayTrades, now, orders, ret>>

CallRSI ==
  /\ calc.fn = "none"
  /\ calc' = [calc EXCEPT !.fn = "calculateRSI",
                          !.out = calculateRSI(Numbers(calc.prices), calc.period)]
  /\ UNCHANGED <<accountValue, dayTrades, now, orders, ret>>

CallBollingerBands ==
  /\ calc.fn = "none"
  /\ calc' = [calc EXCEPT !.fn = "calculateBollingerBands",
                          !.out = calculateBollingerBands(Numbers(calc.prices),
                                                          calc.period, calc.mult)]
  /\ UNCHANGED <<accountValue, dayTrades, now, orders, ret>>

NextCalc ==
  \/ CallMovingAverage
  \/ CallEMA
  \/ CallRSI
  \/ CallBollingerBands

SpecCalc == InitCalc /\ [][NextCalc]_vars

(* calculateMACD *)

Min(a, b) == IF a < b THEN a ELSE b

Difference_swapped(left, right) ==
  [i \in 1..Min(Len(left), Len(right)) |-> RSub(right[i], left[i])]

(* The two subtraction loops of calculateMACD: left[i] - right[i] for every
   index both sequences have *)
Difference(left, right) ==
  [i \in 1..Min(Len(left), Len(right)) |-> RSub(left[i], right[i])]

calculateMACD(prices, fastPeriod, slowPeriod, signalPeriod) ==
  LET emaFast   == calculateEMA(prices, fastPeriod)
      emaSlow   == calculateEMA(prices, slowPeriod)
      macd      == Difference(emaFast, emaSlow)
      signal    == calculateEMA(macd, signalPeriod)
      histogram == Difference(macd, signal)
  IN  [macd |-> macd, signal |-> signal, histogram |-> histogram]

InitMACD ==
  /\ accountValue = 10000
  /\ dayTrades = [d \in Days |-> <<>>]
  /\ now = 0
  /\ orders = <<>>
  /\ ret = [op |-> "constructor", val |-> Null]
  /\ \E series \in SeriesSet, fastPeriod \in 1..MaxPeriod,
        slowPeriod \in 1..MaxPeriod, signalPeriod \in 1..MaxPeriod :
       calc = [fn |-> "none", prices |-> series, fastPeriod |-> fastPeriod,
               slowPeriod |-> slowPeriod, signalPeriod |-> signalPeriod,
               out |-> <<>>]

CallMACD ==
  /\ calc.fn = "none"
  /\ calc' = [calc EXCEPT !.fn = "calculateMACD",
                          !.out = calculateMACD(Numbers(calc.prices), calc.fastPeriod,
                                                calc.slowPeriod, calc.signalPeriod)]
  /\ UNCHANGED <<accountValue, dayTrades, now, orders, ret>>

SpecMACD == InitMACD /\ [][CallMACD]_vars

(* The POST /orders route of the trade server.  The tracker is a local of
   the handler: accountValue and dayTrades hold the one the latest request
   built, orders the requests answered so far. *)

MaxRequests == 3

InitRoute ==
  /\ accountValue = 10000
  /\ dayTrades = [d \in Days |-> <<>>]
  /\ now = 0
  /\ orders = <<>>
  /\ ret = [op |-> "listen", val |-> Null]
  /\ calc = CalcIdle

PostOrders_negated(symbol, side) ==
  /\ Len(orders) < MaxRequests
  /\ accountValue' = 10000
  /\ dayTrades' = [d \in Days |-> <<>>]
  /\ LET wouldBeDayTrade == TRUE
         status == IF side = "sell" /\ wouldBeDayTrade /\ canDayTrade'
                   THEN 400 ELSE 200
     IN  /\ ret' = [op |-> "POST /orders", val |-> status]
         /\ orders' = Append(orders, [symbol |-> symbol, side |-> side,
                                      status |-> status])
  /\ UNCHANGED <<calc, now>>

(* One request: new PDTTracker(10000), the PDT check of a sell, the answer *)
PostOrders(symbol, side) ==
  /\ Len(orders) < MaxRequests
  /\ accountValue' = 10000
  /\ dayTrades' = [d \in Days |-> <<>>]
  /\ LET wouldBeDayTrade == TRUE
         status == IF side = "sell" /\ wouldBeDayTrade /\ ~canDayTrade'
                   THEN 400 ELSE 200
     IN  /\ ret' = [op |-> "POST /orders", val |-> status]
         /\ orders' = Append(orders, [symbol |-> symbol, side |-> side,
                                      status |-> status])
  /\ UNCHANGED <<calc, now>>

NextRoute ==
  \/ \E symbol \in Symbols, side \in Sides : PostOrders(symbol, side)
  \/ Tick

SpecRoute == InitRoute /\ [][NextRoute]_vars

----------------------------------------------------------------------------
(* IEEE 754 double precision, for the functions whose result turns on a
   rounding.  A natural number of any size is the sequence of its digits in
   base 2^15, lowest first, without leading zeros (0 is the empty sequence).
   A double is [sign, m, e] with value sign * m * 2^e, m odd; zero is
   [1, <<>>, 0].  Rounding is to nearest, ties to even, on 53 bits.
   Subnormals, overflow, NaN and the sign of zero are outside the inputs used
   here. *)

Precision == 53

LimbBits == 15

LimbBase == 32768

(* Drop the leading zero digits *)
RECURSIVE Trim(_)
Trim(a) ==
  IF a = <<>> \/ a[Len(a)] # 0 THEN a
  ELSE Trim(SubSeq(a, 1, Len(a) - 1))

RECURSIVE BFromInt(_)
BFromInt(n) ==
  IF n = 0 THEN <<>> ELSE <<n % LimbBase>> \o BFromInt(n \div LimbBase)

RECURSIVE BToInt(_)
BToInt(a) == IF a = <<>> THEN 0 ELSE a[1] + LimbBase * BToInt(Tail(a))

Limb(a, i) == IF i <= Len(a) THEN a[i] ELSE 0

RECURSIVE BAddLoop(_, _, _, _, _)
BAddLoop(a, b, i, carry, acc) ==
  IF i > Len(a) /\ i > Len(b)
  THEN IF carry = 0 THEN acc ELSE Append(acc, carry)
  ELSE LET t == Limb(a, i) + Limb(b, i) + carry
       IN  BAddLoop(a, b, i + 1, t \div LimbBase, Append(acc, t % LimbBase))

BAdd(a, b) == BAddLoop(a, b, 1, 0, <<>>)

(* a - b for a >= b *)
RECURSIVE BSubLoop(_, _, _, _, _)
BSubLoop(a, b, i, borrow, acc) ==
  IF i > Len(a) THEN Trim(acc)
  ELSE LET t == Limb(a, i) - Limb(b, i) - borrow
       IN  BSubLoop(a, b, i + 1, IF t < 0 THEN 1 ELSE 0,
                    Append(acc, IF t < 0 THEN t + LimbBase ELSE t))

BSub(a, b) == BSubLoop(a, b, 1, 0, <<>>)

(* a < b, compared from the highest digit down *)
RECURSIVE BLessFrom(_, _, _)
BLessFrom(a, b, i) ==
  IF i = 0 THEN FALSE
  ELSE IF a[i] # b[i] THEN a[i] < b[i]
  ELSE BLessFrom(a, b, i - 1)

BLess(a, b) ==
  IF Len(a) # Len(b) THEN Len(a) < Len(b) ELSE BLessFrom(a, b, Len(a))

(* a * c for a digit c *)
RECURSIVE BMulSmallLoop(_, _, _, _, _)
BMulSmallLoop(a, c, i, carry, acc) ==
  IF i > Len(a)
  THEN IF carry = 0 THEN acc ELSE Append(acc, carry)
  ELSE LET t == a[i] * c + carry
       IN  BMulSmallLoop(a, c, i + 1, t \div LimbBase, Append(acc, t % LimbBase))

BMulSmall(a, c) == IF c = 0 THEN <<>> ELSE BMulSmallLoop(a, c, 1, 0, <<>>)

(* a * LimbBase^n *)
ShiftLimbs(a, n) == IF a = <<>> THEN <<>> ELSE [i \in 1..n |-> 0] \o a

RECURSIVE BMulLoop(_, _, _, _)
BMulLoop(a, b, i, acc) ==
  IF i > Len(b) THEN acc
  ELSE BMulLoop(a, b, i + 1,
                BAdd(acc, ShiftLimbs(BMulSmall(a, b[i]), i - 1)))

BMul(a, b) == BMulLoop(a, b, 1, <<>>)

(* floor(a / c) for a digit c > 0 *)
RECURSIVE BDivSmallLoop(_, _, _, _, _)
BDivSmallLoop(a, c, i, rem, quot) ==
  IF i = 0 THEN Trim(quot)
  ELSE LET t == rem * LimbBase + a[i]
       IN  BDivSmallLoop(a, c, i - 1, t % c, <<t \div c>> \o quot)

BDivSmall(a, c) == BDivSmallLoop(a, c, Len(a), 0, <<>>)

(* a * 2^n and floor(a / 2^n) *)
BShl(a, n) == ShiftLimbs(BMulSmall(a, 2^(n % LimbBits)), n \div LimbBits)

BShr(a, n) ==
  BDivSmall(SubSeq(a, n \div LimbBits + 1, Len(a)), 2^(n % LimbBits))

(* The n lowest bits of a are all 0 *)
LowBitsZero(a, n) ==
  /\ \A i \in 1..Min(n \div LimbBits, Len(a)) : a[i] = 0
  /\ Limb(a, n \div LimbBits + 1) % (2^(n % LimbBits)) = 0

BOdd(a) == a # <<>> /\ a[1] % 2 = 1

RECURSIVE IntBits(_)
IntBits(n) == IF n = 0 THEN 0 ELSE 1 + IntBits(n \div 2)

BitLen(a) ==
  IF a = <<>> THEN 0 ELSE LimbBits * (Len(a) - 1) + IntBits(a[Len(a)])

(* The number of 0 bits below the lowest 1 bit of a # 0 *)
RECURSIVE TrailingZeros(_, _)
TrailingZeros(a, n) ==
  IF LowBitsZero(a, n + 1) THEN TrailingZeros(a, n + 1) ELSE n

(* The largest digit d with q * d <= r, for r < q * LimbBase *)
RECURSIVE QuotientDigit(_, _, _, _)
QuotientDigit(r, q, d, bit) ==
  IF bit = 0 THEN d
  ELSE IF BLess(r, BMulSmall(q, d + bit))
       THEN QuotientDigit(r, q, d, bit \div 2)
       ELSE QuotientDigit(r, q, d + bit, bit \div 2)

(* <<quotient, remainder>> of p by q > 0: long division from the highest digit *)
RECURSIVE BDivLoop(_, _, _, _, _)
BDivLoop(p, q, i, quot, rem) ==
  IF i = 0 THEN <<Trim(quot), rem>>
  ELSE LET r == Trim(<<p[i]>> \o rem)
           d == QuotientDigit(r, q, 0, LimbBase \div 2)
       IN  BDivLoop(p, q, i - 1, <<d>> \o quot, BSub(r, BMulSmall(q, d)))

BDivMod(p, q) == BDivLoop(p, q, Len(p), <<>>, <<>>)

FZero == [sign |-> 1, m |-> <<>>, e |-> 0]

(* The double sign * n * 2^e for n of at most 53 bits: n made odd *)
Canon(sign, n, e) ==
  IF n = <<>> THEN FZero
  ELSE LET zeros == TrailingZeros(n, 0)
       IN  [sign |-> sign, m |-> BShr(n, zeros), e |-> e + zeros]

(* The double nearest to sign * (n + d) * 2^e, 0 <= d < 1, sticky telling
   whether d > 0; n has at least 55 bits when sticky *)
RoundNearestEven(sign, n, e, sticky) ==
  IF BitLen(n) <= Precision THEN Canon(sign, n, e)
  ELSE LET k     == BitLen(n) - Precision
           q     == BShr(n, k)
           guard == BOdd(BShr(n, k - 1))
           rest  == sticky \/ ~LowBitsZero(n, k - 1)
           up    == guard /\ (rest \/ BOdd(q))
       IN  Canon(sign, IF up THEN BAdd(q, <<1>>) ELSE q, e + k)

FromInt(n) == Canon(IF n < 0 THEN -1 ELSE 1, BFromInt(Abs(n)), 0)

FNeg(x) == IF x = FZero THEN FZero ELSE [x EXCEPT !.sign = -x.sign]

FAbs(x) == [x EXCEPT !.sign = 1]

FAdd(x, y) ==
  LET e  == Min(x.e, y.e)
      ax == BShl(x.m, x.e - e)
      ay == BShl(y.m, y.e - e)
  IN  IF x.sign = y.sign THEN RoundNearestEven(x.sign, BAdd(ax, ay), e, FALSE)
      ELSE IF BLess(ax, ay) THEN RoundNearestEven(y.sign, BSub(ay, ax), e, FALSE)
      ELSE RoundNearestEven(x.sign, BSub(ax, ay), e, FALSE)

FSub(x, y) == FAdd(x, FNeg(y))

FMul(x, y) ==
  RoundNearestEven(x.sign * y.sign, BMul(x.m, y.m), x.e + y.e, FALSE)

(* x / y for y # 0 *)
FDiv(x, y) ==
  IF x = FZero THEN FZero
  ELSE LET shift == Max(0, Precision + 3 + BitLen(y.m) - BitLen(x.m))
           qr    == BDivMod(BShl(x.m, shift), y.m)
       IN  RoundNearestEven(x.sign * y.sign, qr[1], x.e - y.e - shift,
                            qr[2] # <<>>)

(* Math.floor, as an integer *)
FFloor(x) ==
  IF x.e >= 0 THEN x.sign * BToInt(BShl(x.m, x.e))
  ELSE IF x.sign = 1 THEN BToInt(BShr(x.m, -x.e))
  ELSE -(BToInt(BShr(x.m, -x.e)) + 1)

(* calculatePositionSize, in doubles *)

AccountValues == {100, 1000, 10000}

RiskPercentages == {1, 2, 29, 57}

PositionQuotes == {47, 48, 49, 50}

calculatePositionSize(value, riskPercentage, entryPrice, stopLossPrice) ==
  LET riskAmount   == FMul(value, FDiv(riskPercentage, FromInt(100)))
      riskPerShare == FAbs(FSub(entryPrice, stopLossPrice))
  IN  IF riskPerShare = FZero THEN 0
      ELSE FFloor(FDiv(riskAmount, riskPerShare))

InitPositionSize ==
  /\ accountValue = 10000
  /\ dayTrades = [d \in Days |-> <<>>]
  /\ now = 0
  /\ orders = <<>>
  /\ ret = [op |-> "constructor", val |-> Null]
  /\ \E value \in AccountValues, riskPercentage \in RiskPercentages,
        entryPrice \in PositionQuotes, stopLossPrice \in PositionQuotes :
       calc = [fn |-> "none", accountValue |-> value,
               riskPercentage |-> riskPercentage, entryPrice |-> entryPrice,
               stopLossPrice |-> stopLossPrice, out |-> 0]

CallPositionSize ==
  /\ calc.fn = "none"
  /\ calc' = [calc EXCEPT !.fn = "calculatePositionSize",
                          !.out = calculatePositionSize(FromInt(calc.accountValue),
                                                        FromInt(calc.riskPercentage),
                                                        FromInt(calc.entryPrice),
                                                        FromInt(calc.stopLossPrice))]
  /\ UNCHANGED <<accountValue, dayTrades, now, orders, ret>>

SpecPositionSize == InitPositionSize /\ [][CallPositionSize]_vars

(* calculateSharpeRatio, in doubles.  Math.sqrt is kept symbolic: the result
   is 0 or [num, rad, scale], standing for num / sqrt(rad) * sqrt(scale); the
   square root of a double is 0 exactly when the double is 0. *)

TRADING_DAYS_PER_YEAR == 252

MaxReturns == 4

MaxReturn == 2

(* riskFreeRate in hundredths: the literal 0.02 is the double nearest 2/100 *)
RiskFreeRates == {0, 2}

ReturnsSet == UNION {[1..n -> 0..MaxReturn] : n \in 0..MaxReturns}

(* values.reduce((a, b) => a + b, 0) *)
RECURSIVE FReduce(_, _, _)
FReduce(values, i, acc) ==
  IF i > Len(values) THEN acc
  ELSE FReduce(values, i + 1, FAdd(acc, values[i]))

(* The variance of standardDeviation for a non-empty array *)
FVariance(values) ==
  LET mean         == FDiv(FReduce(values, 1, FZero), FromInt(Len(values)))
      squaredDiffs == [i \in 1..Len(values) |->
                         FMul(FSub(values[i], mean), FSub(values[i], mean))]
  IN  FDiv(FReduce(squaredDiffs, 1, FZero), FromInt(Len(values)))

SharpeZero == [zero |-> TRUE]

calculateSharpeRatio(returns, riskFreeRate) ==
  IF Len(returns) = 0 THEN SharpeZero
  ELSE LET meanReturn    == FDiv(FReduce(returns, 1, FZero), FromInt(Len(returns)))
           daily         == FDiv(riskFreeRate, FromInt(TRADING_DAYS_PER_YEAR))
           excessReturns == [i \in 1..Len(returns) |-> FSub(returns[i], daily)]
           variance      == FVariance(excessReturns)
       IN  IF variance = FZero THEN SharpeZero
           ELSE [zero |-> FALSE, num |-> FSub(meanReturn, daily), rad |-> variance,
                 scale |-> TRADING_DAYS_PER_YEAR]

InitSharpe ==
  /\ accountValue = 10000
  /\ dayTrades = [d \in Days |-> <<>>]
  /\ now = 0
  /\ orders = <<>>
  /\ ret = [op |-> "constructor", val |-> Null]
  /\ \E returns \in ReturnsSet, hundredths \in RiskFreeRates :
       calc = [fn |-> "none", returns |-> returns, hundredths |-> hundredths,
               out |-> SharpeZero]

CallSharpeRatio ==
  /\ calc.fn = "none"
  /\ calc' = [calc EXCEPT !.fn = "calculateSharpeRatio",
                          !.out = calculateSharpeRatio(
                                    [i \in 1..Len(calc.returns) |-> FromInt(calc.returns[i])],
                                    FDiv(FromInt(calc.hundredths), FromInt(100)))]
  /\ UNCHANGED <<accountValue, dayTrades, now, orders, ret>>

SpecSharpe == InitSharpe /\ [][CallSharpeRatio]_vars

(* calculateRiskRewardRatio *)

MaxQuote == 5

Quotes == 0..MaxQuote

calculateRiskRewardRatio_signed(entryPrice, stopLossPrice, takeProfitPrice) ==
  LET risk   == RAbs(RSub(entryPrice, stopLossPrice))
      reward == RSub(takeProfitPrice, entryPrice)
  IN  IF risk = Num(0) THEN Num(0) ELSE RDiv(reward, risk)

calculateRiskRewardRatio(entryPrice, stopLossPrice, takeProfitPrice) ==
  LET risk   == RAbs(RSub(entryPrice, stopLossPrice))
      reward == RAbs(RSub(takeProfitPrice, entryPrice))
  IN  IF risk = Num(0) THEN Num(0) ELSE RDiv(reward, risk)

InitRiskReward ==
  /\ accountValue = 10000
  /\ dayTrades = [d \in Days |-> <<>>]
  /\ now = 0
  /\ orders = <<>>
  /\ ret = [op |-> "constructor", val |-> Null]
  /\ \E entryPrice \in Quotes, stopLossPrice \in Quotes, takeProfitPrice \in Quotes :
       calc = [fn |-> "none", entryPrice |-> entryPrice,
               stopLossPrice |-> stopLossPrice,
               takeProfitPrice |-> takeProfitPrice, out |-> <<>>]

CallRiskRewardRatio ==
  /\ calc.fn = "none"
  /\ calc' = [calc EXCEPT !.fn = "calculateRiskRewardRatio",
                          !.out = calculateRiskRewardRatio(Num(calc.entryPrice),
                                                           Num(calc.stopLossPrice),
                                                           Num(calc.takeProfitPrice))]
  /\ UNCHANGED <<accountValue, dayTrades, now, orders, ret>>

SpecRiskReward == InitRiskReward /\ [][CallRiskRewardRatio]_vars

----------------------------------------------------------------------------
(* Notions the properties are stated in *)

(* The set of DayTrade records held by the map *)
StoredTrades == UNION {{dayTrades[d][i] : i \in 1..Len(dayTrades[d])} : d \in Days}

(* Day 0 is a Thursday; Saturdays and Sundays are not trading days *)
IsTradingDay(d) == ((d + 4 + 70) % 7) \notin {0, 6}

(* The n most recent trading days up to and including day d *)
RECURSIVE RecentTradingDays(_, _)
RecentTradingDays(d, n) ==
  IF n = 0 THEN {}
  ELSE IF IsTradingDay(d) THEN {d} \cup RecentTradingDays(d - 1, n - 1)
  ELSE RecentTradingDays(d - 1, n)

TradingWindow == RecentTradingDays(DateKey(now), WindowDays)

(* Day d advanced by n trading days *)
RECURSIVE AddTradingDays(_, _)
AddTradingDays(d, n) ==
  IF n = 0 THEN d
  ELSE IF IsTradingDay(d + 1) THEN AddTradingDays(d + 1, n - 1)
  ELSE AddTradingDays(d + 1, n)

WindowedTrades == {t \in StoredTrades : DateKey(t.tradeDate) \in TradingWindow}

TradingWindowCount == Cardinality(WindowedTrades)

(* An order id that no DayTrade record names *)
Unmatched(id) == \A t \in StoredTrades : t.buyOrderId # id /\ t.sellOrderId # id

(* An accepted, unmatched order of today on the symbol and the other side *)
HasOpenOpposite(symbol, side) ==
  \E i \in 1..Len(orders) :
    /\ orders[i].day = DateKey(now)
    /\ orders[i].symbol = symbol
    /\ orders[i].side # side
    /\ orders[i].accepted
    /\ Unmatched(orders[i].id)

(* The step is a call of addOrder *)
Evaluated == Len(orders') = Len(orders) + 1

(* The records created by addOrder *)
OrderTrades == {t \in StoredTrades : t.userId # "test"}

----------------------------------------------------------------------------
(* Properties *)

(* C1: with equity below 25000 and exactly PDT_LIMIT day trades recorded in the
   current 5-trading-day window, canDayTrade is false, and an order that would
   complete a day trade (an unmatched opposite-side order on its symbol exists
   today) is blocked and records no DayTrade. *)
C1_FourthOrderBlocked ==
  [][(accountValue < PDT_THRESHOLD /\ TradingWindowCount = PDT_LIMIT)
       => /\ ~canDayTrade
          /\ (Evaluated /\ HasOpenOpposite(orders'[Len(orders')].symbol,
                                           orders'[Len(orders')].side))
               => (ret'.val = FALSE /\ dayTrades' = dayTrades)]_vars

(* C2: whenever the equity is at or above the threshold, canDayTrade is true
   whatever the number of stored day trades, a call of canDayTrade returns true
   and no order is blocked. *)
C2_EquityAlwaysEligible ==
  accountValue >= PDT_THRESHOLD
    => /\ canDayTrade
       /\ (ret.op \in {"canDayTrade", "addOrder"} => ret.val = TRUE)

(* C2 witness: at or above the threshold, an order has just completed a day
   trade although more than PDT_LIMIT day trades are counted. *)
C2_Witness ==
  /\ accountValue >= PDT_THRESHOLD
  /\ ret.op = "addOrder"
  /\ ret.val = TRUE
  /\ getDayTradeCount > PDT_LIMIT
  /\ \E t \in OrderTrades : Len(orders) \in {t.buyOrderId, t.sellOrderId}

(* C3: from an empty log with equity 10000, an order on a symbol followed the
   same day by an opposite-side order on it accepts both and records exactly
   one DayTrade; then dayTradeCount = 1 and remainingDayTrades = 2. *)
C3_SymmetricDetection ==
  ( /\ accountValue = 10000
    /\ ret.op = "addOrder"
    /\ Len(orders) = 2
    /\ StoredTrades \ OrderTrades = {}
    /\ orders[1].symbol = orders[2].symbol
    /\ orders[1].side # orders[2].side
    /\ orders[1].day = orders[2].day )
    => /\ orders[1].accepted
       /\ orders[2].accepted
       /\ Cardinality(StoredTrades) = 1
       /\ getDayTradeCount = 1
       /\ getRemainingDayTrades = 2

(* C4: an order evaluated while no unmatched opposite-side order on its symbol
   exists today is accepted and leaves the DayTrade log unchanged. *)
C4_NoOppositeNoDayTrade ==
  [][(Evaluated /\ ~HasOpenOpposite(orders'[Len(orders')].symbol,
                                    orders'[Len(orders')].side))
       => (ret'.val = TRUE /\ dayTrades' = dayTrades)]_vars

(* C5: dayTradeCount equals the number of stored DayTrade records whose trade
   date lies in the trailing 5-trading-day window ending today, and no two
   records share the same (buy order id, sell order id) pair. *)
C5_CountMatchesWindow ==
  /\ getDayTradeCount = TradingWindowCount
  /\ \A t, u \in StoredTrades :
       (t.buyOrderId = u.buyOrderId /\ t.sellOrderId = u.sellOrderId) => t = u

(* C6: every DayTrade created by addOrder pairs two submitted orders: a buy
   and a sell on the record's symbol, both submitted on the record's trade
   date. *)
C6_PairsSameSymbolOppositeSameDay ==
  \A t \in OrderTrades :
    \E i, j \in 1..Len(orders) :
      /\ orders[i].id = t.buyOrderId
      /\ orders[j].id = t.sellOrderId
      /\ orders[i].side = "buy"
      /\ orders[j].side = "sell"
      /\ orders[i].symbol = t.symbol
      /\ orders[j].symbol = t.symbol
      /\ orders[i].day = DateKey(t.tradeDate)
      /\ orders[j].day = DateKey(t.tradeDate)

(* C7: a stored DayTrade is counted by dayTradeCount exactly when its trade
   date is one of the 5 most recent trading days including today. *)
C7_WindowInTradingDays ==
  \A t \in StoredTrades :
    InWindow(t, SetDate(now, -WindowDays)) <=> DateKey(t.tradeDate) \in TradingWindow

(* The trade date of the oldest DayTrade inside the 5-trading-day window *)
OldestWindowed ==
  CHOOSE x \in {t.tradeDate : t \in WindowedTrades} :
    \A y \in {t.tradeDate : t \in WindowedTrades} : x <= y

(* C8: getNextTradeDate is null whenever canDayTrade is true; otherwise it is
   the trade date of the oldest DayTrade in the window advanced by 5 trading
   days. *)
C8_NextEligibleDate ==
  /\ canDayTrade => getNextTradeDate = Null
  /\ ~canDayTrade =>
       /\ getNextTradeDate # Null
       /\ WindowedTrades # {}
       /\ DateKey(getNextTradeDate) = AddTradingDays(DateKey(OldestWindowed), WindowDays)

(* C9: while an account below the threshold is at the limit and no day trade
   is recorded, after the clock advances canDayTrade is false before the
   instant getNextTradeDate reported and true from that instant on; raising
   the equity to the threshold makes it true at once. *)
C9_EligibleAgainAtReportedDate ==
  [][/\ (/\ accountValue < PDT_THRESHOLD
         /\ ~canDayTrade
         /\ now' > now
         /\ dayTrades' = dayTrades
         /\ accountValue' = accountValue)
          => (canDayTrade' <=> now' >= getNextTradeDate)
     /\ (~canDayTrade /\ accountValue' >= PDT_THRESHOLD) => canDayTrade']_vars

(* C10: getRemainingDayTrades returns Infinity when the equity is at or above
   the threshold and otherwise the limit minus dayTradeCount, or 0 when the
   count exceeds the limit; it is never negative. *)
C10_RemainingDayTrades ==
  ret.op = "getRemainingDayTrades"
    => /\ ret.val >= 0
       /\ ret.val = IF accountValue >= PDT_THRESHOLD THEN Infinity
                    ELSE IF getDayTradeCount >= PDT_LIMIT THEN 0
                    ELSE PDT_LIMIT - getDayTradeCount

(* C10 witness: below the threshold with more than PDT_LIMIT day trades
   counted, getRemainingDayTrades has just returned 0. *)
C10_Witness ==
  /\ ret.op = "getRemainingDayTrades"
  /\ accountValue < PDT_THRESHOLD
  /\ getDayTradeCount > PDT_LIMIT
  /\ ret.val = 0

(* C11: whenever addOrder blocks an order (the order would complete a day
   trade while canDayTrade is false), the value it returns is a Blocked
   decision, not a bare boolean: it has the reason PDTLimitExceeded and a
   non-null nextEligibleDate. *)
C11_BlockCarriesDate ==
  (ret.op = "addOrder" /\ ~orders[Len(orders)].accepted /\ ~canDayTrade)
    => /\ ret.val \notin BOOLEAN
       /\ ret.val.reason = "PDTLimitExceeded"
       /\ ret.val.nextEligibleDate # Null

(* An order with an empty symbol or a quantity <= 0 *)
Malformed(o) == o.symbol = "" \/ o.quantity <= 0

(* C12: addOrder on a malformed order does not return a decision (it fails
   with InvalidOrder) and leaves the equity and the DayTrade log as they were;
   on a well-formed order it returns a decision. *)
C12_MalformedRejected ==
  [][Evaluated =>
       IF Malformed(orders'[Len(orders')])
       THEN /\ ret'.val \notin BOOLEAN
            /\ dayTrades' = dayTrades
            /\ accountValue' = accountValue
       ELSE ret'.val \in BOOLEAN]_vars

(* C13: updateAccountValue never stores a negative value (a negative argument
   leaves the stored equity unchanged) and changes nothing but the equity. *)
C13_NegativeEquityRejected ==
  [][ret'.op = "updateAccountValue"
       => /\ (accountValue' # accountValue => accountValue' >= 0)
          /\ dayTrades' = dayTrades
          /\ orders' = orders]_vars

(* C14: addOrder checks and records in one step: while the equity is below
   the threshold, an order that records a DayTrade never takes the counted
   day trades above the limit. *)
C14_CheckAndRecordAtomic ==
  [][(Evaluated /\ accountValue < PDT_THRESHOLD /\ dayTrades' # dayTrades)
       => /\ getDayTradeCount < PDT_LIMIT
          /\ getDayTradeCount' <= PDT_LIMIT]_vars

(* C14 witness: below the threshold, of two orders completing a day trade the
   first was accepted and reached the limit, the second was blocked. *)
C14_Witness ==
  /\ accountValue < PDT_THRESHOLD
  /\ Len(orders) = 2
  /\ orders[1].accepted
  /\ ~Unmatched(orders[1].id)
  /\ ~orders[2].accepted
  /\ getDayTradeCount = PDT_LIMIT

(* C15: a call of getDayTradeCount returns the current count, returns the
   same value as an immediately preceding call, and leaves the results of
   getDayTradeCount, getNextTradeDate, canDayTrade and getRemainingDayTrades
   unchanged. *)
C15_CountIdempotent ==
  [][ret'.op = "getDayTradeCount"
       => /\ ret'.val = getDayTradeCount
          /\ (ret.op = "getDayTradeCount" => ret'.val = ret.val)
          /\ getDayTradeCount' = getDayTradeCount
          /\ getNextTradeDate' = getNextTradeDate
          /\ canDayTrade' = canDayTrade
          /\ getRemainingDayTrades' = getRemainingDayTrades]_vars

(* C15 witness: getDayTradeCount has just returned the limit for an account
   below the threshold, so getNextTradeDate is not null. *)
C15_Witness ==
  /\ ret.op = "getDayTradeCount"
  /\ ret.val = PDT_LIMIT
  /\ accountValue < PDT_THRESHOLD
  /\ getNextTradeDate # Null
  /\ now = SetDate(0, WindowDays)

(* The accounts that own a stored DayTrade *)
AccountsOf(trades) == {t.userId : t \in trades}

(* The order ids a DayTrade pairs *)
PairedIds(t) == {t.buyOrderId, t.sellOrderId}

(* C16: compliance state is per account: an order evaluation or an equity
   update made for one account (every order of the model is account u1's)
   changes none of getDayTradeCount, canDayTrade, getRemainingDayTrades and
   getNextTradeDate as answered to a different account that owns stored
   DayTrades (account test), and no DayTrade of one account pairs an order
   that a DayTrade of another account pairs. *)
C16_PerAccountState ==
  [][/\ (ret'.op \in {"addOrder", "updateAccountValue"}
           /\ "test" \in AccountsOf(StoredTrades))
          => /\ getDayTradeCount' = getDayTradeCount
             /\ canDayTrade' = canDayTrade
             /\ getRemainingDayTrades' = getRemainingDayTrades
             /\ getNextTradeDate' = getNextTradeDate
     /\ \A t \in StoredTrades', u \in StoredTrades' :
          t.userId # u.userId => PairedIds(t) \cap PairedIds(u) = {}]_vars

----------------------------------------------------------------------------
(* Notions the indicator properties are stated in: integer sums of the
   samples, independent of the rational arithmetic of the model *)

RECURSIVE IntSum(_, _, _)
IntSum(series, from, to) ==
  IF from > to THEN 0 ELSE series[from] + IntSum(series, from + 1, to)

RECURSIVE IntSumSq(_, _, _)
IntSumSq(series, from, to) ==
  IF from > to THEN 0
  ELSE series[from] * series[from] + IntSumSq(series, from + 1, to)

OutLength == Max(0, Len(calc.prices) - calc.period + 1)

StrictlyIncreasing(series) ==
  \A i \in 1..(Len(series) - 1) : series[i] < series[i + 1]

StrictlyDecreasing(series) ==
  \A i \in 1..(Len(series) - 1) : series[i] > series[i + 1]

(* C17: for every series and period >= 1 calculateMovingAverage returns
   max(0, len - period + 1) values, the k-th being the arithmetic mean of
   series[k .. k+period-1]; a period longer than the series gives the empty
   sequence. *)
C17_MovingAverage ==
  calc.fn = "calculateMovingAverage" =>
    /\ Len(calc.out) = OutLength
    /\ \A k \in 1..Len(calc.out) :
         calc.out[k][1] * calc.period
           = IntSum(calc.prices, k, k + calc.period - 1) * calc.out[k][2]
    /\ calc.period > Len(calc.prices) => calc.out = <<>>

C17_Witness ==
  /\ calc.fn = "calculateMovingAverage"
  /\ calc.period >= 2
  /\ Len(calc.out) >= 2
  /\ calc.out[1] # calc.out[2]

(* C18: for a series of at least `period` samples calculateEMA returns
   len - period + 1 values, the first the mean of the first `period` samples
   and each later one (price - previous) * 2/(period+1) + previous; a shorter
   series gives the empty sequence. *)
C18_EMA ==
  calc.fn = "calculateEMA" =>
    IF Len(calc.prices) < calc.period THEN calc.out = <<>>
    ELSE /\ Len(calc.out) = Len(calc.prices) - calc.period + 1
         /\ calc.out[1][1] * calc.period
              = IntSum(calc.prices, 1, calc.period) * calc.out[1][2]
         /\ \A k \in 2..Len(calc.out) :
              LET price == calc.prices[calc.period + k - 1]
                  a == calc.out[k][1]
                  b == calc.out[k][2]
                  c == calc.out[k - 1][1]
                  d == calc.out[k - 1][2]
              IN  (a * d - c * b) * (calc.period + 1) = 2 * (price * d - c) * b

C18_Witness ==
  /\ calc.fn = "calculateEMA"
  /\ calc.period >= 2
  /\ Len(calc.out) >= 2
  /\ calc.out[2] # calc.out[1]

(* C19: calculateRSI returns 50 when the series has fewer than period + 1
   samples; otherwise 100 when the average loss is 0, in particular for a
   strictly increasing series, and 0 for a strictly decreasing series. *)
C19_RSISentinels ==
  calc.fn = "calculateRSI" =>
    IF Len(calc.prices) < calc.period + 1 THEN calc.out = <<50, 1>>
    ELSE /\ (\A i \in 1..calc.period : calc.prices[i + 1] >= calc.prices[i])
              => calc.out = <<100, 1>>
         /\ StrictlyIncreasing(calc.prices) => calc.out = <<100, 1>>
         /\ StrictlyDecreasing(calc.prices) => calc.out = <<0, 1>>

C19_Witness ==
  /\ calc.fn = "calculateRSI"
  /\ calc.period >= 2
  /\ Len(calc.prices) >= calc.period + 1
  /\ StrictlyDecreasing(calc.prices)
  /\ calc.out = <<0, 1>>

(* C20: calculateBollingerBands returns upper, middle and lower of the same
   length max(0, len - period + 1), middle being the moving average; at each
   index upper - middle = middle - lower = multiplier * the population
   standard deviation of the trailing window, so upper >= middle >= lower
   for a multiplier >= 0; a series shorter than period gives three empty
   sequences. *)
C20_BollingerBands ==
  calc.fn = "calculateBollingerBands" =>
    /\ Len(calc.out.upper) = OutLength
    /\ Len(calc.out.middle) = OutLength
    /\ Len(calc.out.lower) = OutLength
    /\ \A k \in 1..OutLength :
         LET u == calc.out.upper[k]
             m == calc.out.middle[k]
             l == calc.out.lower[k]
             N == calc.period
             S == IntSum(calc.prices, k, k + N - 1)
             Q == IntSumSq(calc.prices, k, k + N - 1)
         IN  /\ m[1] * N = S * m[2]
             /\ u.base = m /\ l.base = m
             /\ u.coef = <<calc.mult, 1>> /\ l.coef = <<-calc.mult, 1>>
             /\ u.rad = l.rad
             /\ u.rad[1] * N * N = (N * Q - S * S) * u.rad[2]
             /\ u.rad[1] >= 0 /\ u.coef[1] >= 0 /\ l.coef[1] <= 0
    /\ Len(calc.prices) < calc.period =>
         calc.out = [upper |-> <<>>, middle |-> <<>>, lower |-> <<>>]

C20_Witness ==
  /\ calc.fn = "calculateBollingerBands"
  /\ calc.mult > 0
  /\ calc.period >= 2
  /\ Len(calc.out.upper) >= 2
  /\ calc.out.upper[1].rad[1] > 0
  /\ calc.out.upper[2].rad # calc.out.upper[1].rad

(* x = y - z for rationals x, y, z, in integers *)
IsDifference(x, y, z) ==
  x[1] * y[2] * z[2] = (y[1] * z[2] - z[1] * y[2]) * x[2]

(* C21: calculateMACD returns macd of length min(len emaFast, len emaSlow)
   with macd[i] = emaFast[i] - emaSlow[i], signal the EMA of macd over
   signalPeriod, and histogram of length min(len macd, len signal) with
   histogram[i] = macd[i] - signal[i]; a series shorter than the slow period
   gives three empty sequences. *)
C21_MACD ==
  calc.fn = "calculateMACD" =>
    LET emaFast == calculateEMA(Numbers(calc.prices), calc.fastPeriod)
        emaSlow == calculateEMA(Numbers(calc.prices), calc.slowPeriod)
        out     == calc.out
    IN  /\ Len(out.macd) = Min(Len(emaFast), Len(emaSlow))
        /\ \A i \in 1..Len(out.macd) :
             IsDifference(out.macd[i], emaFast[i], emaSlow[i])
        /\ out.signal = calculateEMA(out.macd, calc.signalPeriod)
        /\ Len(out.histogram) = Min(Len(out.macd), Len(out.signal))
        /\ \A i \in 1..Len(out.histogram) :
             IsDifference(out.histogram[i], out.macd[i], out.signal[i])
        /\ Len(calc.prices) < calc.slowPeriod =>
             out = [macd |-> <<>>, signal |-> <<>>, histogram |-> <<>>]

C21_Witness ==
  /\ calc.fn = "calculateMACD"
  /\ calc.fastPeriod < calc.slowPeriod
  /\ Len(calc.out.macd) >= 2
  /\ Len(calc.out.histogram) >= 1
  /\ Len(calc.out.histogram) < Len(calc.out.macd)
  /\ calc.out.macd[1] # <<0, 1>>
  /\ calc.out.histogram[1] # <<0, 1>>

(* The accepted, unmatched orders of today on the symbol and the other side *)
OpenOpposite(symbol, side) ==
  {i \in 1..Len(orders) :
     /\ orders[i].day = DateKey(now)
     /\ orders[i].symbol = symbol
     /\ orders[i].side # side
     /\ orders[i].accepted
     /\ Unmatched(orders[i].id)}

(* C25: when several unmatched opposite-side orders of today on the symbol
   are open, an accepted order is paired with the oldest of them, and every
   order id is named by at most one DayTrade record. *)
C25_FIFOPairing ==
  [][/\ LET incoming == orders'[Len(orders')]
            open     == OpenOpposite(incoming.symbol, incoming.side)
        IN  (Evaluated /\ Cardinality(open) >= 2 /\ ret'.val = TRUE)
              => \E t \in StoredTrades' \ StoredTrades :
                   \E i \in open :
                     /\ \A j \in open : i <= j
                     /\ PairedIds(t) = {incoming.id, orders[i].id}
     /\ \A t \in StoredTrades', u \in StoredTrades' :
          t # u => PairedIds(t) \cap PairedIds(u) = {}]_vars

(* C26: a call of getDayTradeCount returns the count recomputed from the
   stored log and prunes the log: afterwards no stored DayTrade is dated
   before the trailing 5-trading-day window, and every DayTrade inside the
   window is still stored. *)
C26_CountPrunes ==
  [][ret'.op = "getDayTradeCount"
       => /\ ret'.val = getDayTradeCount
          /\ \A t \in StoredTrades' :
               \E d \in TradingWindow : d <= DateKey(t.tradeDate)
          /\ \A t \in WindowedTrades : t \in StoredTrades']_vars

(* C27: addOrder records a DayTrade only when a DayTrade on the order's
   symbol is already stored under today's key; so as long as addDayTrade has
   stored nothing (its records carry the user id test and nothing removes a
   record) the log is empty, getDayTradeCount is 0 and every addOrder returns
   true. *)
C27_LogStaysEmpty ==
  [][/\ (Evaluated /\ dayTrades' # dayTrades)
          => FindSymbol(dayTrades[DateKey(now)], orders'[Len(orders')].symbol, 1) # 0
     /\ (\A t \in StoredTrades' : t.userId # "test")
          => /\ StoredTrades' = {}
             /\ getDayTradeCount' = 0
             /\ Evaluated => ret'.val = TRUE]_vars

C27_Witness ==
  /\ StoredTrades = {}
  /\ ret.op = "addOrder"
  /\ Len(orders) = 2
  /\ orders[1].symbol = orders[2].symbol
  /\ orders[1].side = "buy"
  /\ orders[2].side = "sell"
  /\ orders[2].accepted

(* C28: when addOrder returns false the dayTrades map and accountValue are
   what they were before the call, so the blocked order uses no day-trade
   slot. *)
C28_BlockedChangesNothing ==
  [][(Evaluated /\ ret'.val = FALSE)
       => /\ dayTrades' = dayTrades
          /\ accountValue' = accountValue
          /\ getDayTradeCount' = getDayTradeCount
          /\ getRemainingDayTrades' = getRemainingDayTrades]_vars

C28_Witness ==
  /\ ret.op = "addOrder"
  /\ ret.val = FALSE
  /\ ~orders[Len(orders)].accepted
  /\ TotalTrades = PDT_LIMIT
  /\ getRemainingDayTrades = 0

(* C29: every POST /orders request builds a tracker with equity 10000 and an
   empty log, so canDayTrade is true in every request and no request is
   answered 400 'PDT limit reached', however many sell orders came before. *)
C29_RouteNeverBlocks ==
  /\ \A i \in 1..Len(orders) : orders[i].status = 200
  /\ ret.op = "POST /orders"
       => /\ ret.val = 200
          /\ accountValue = 10000
          /\ StoredTrades = {}
          /\ canDayTrade

C29_Witness ==
  /\ ret.op = "POST /orders"
  /\ Len(orders) >= 3
  /\ \A i \in 1..Len(orders) : orders[i].side = "sell" /\ orders[i].symbol = "AAPL"
  /\ ret.val = 200

(* The series that have the same first n samples as the series of the call *)
SamePrefix(n) ==
  {other \in SeriesSet :
     /\ Len(other) >= n
     /\ \A i \in 1..n : other[i] = calc.prices[i]}

(* C30: for a series of at least period + 1 samples calculateRSI depends on
   the first period + 1 samples only: every series that agrees on them gives
   the same result, and the result lies in 0..100. *)
C30_RSIPrefixOnly ==
  (calc.fn = "calculateRSI" /\ Len(calc.prices) >= calc.period + 1) =>
    /\ \A other \in SamePrefix(calc.period + 1) :
         calculateRSI(Numbers(other), calc.period) = calc.out
    /\ calc.out[1] >= 0
    /\ calc.out[1] <= 100 * calc.out[2]

C30_Witness ==
  /\ calc.fn = "calculateRSI"
  /\ calc.period >= 2
  /\ Len(calc.prices) >= calc.period + 2
  /\ calc.prices[Len(calc.prices)] # calc.prices[Len(calc.prices) - 1]
  /\ Cardinality(SamePrefix(calc.period + 1)) >= 4
  /\ calc.out[1] > 0
  /\ calc.out[1] < 100 * calc.out[2]

(* C24: calculateRiskRewardRatio returns |takeProfit - entry| divided by
   |entry - stopLoss| when entry and stopLoss differ and 0 when they are
   equal; the result is never negative. *)
C24_RiskRewardRatio ==
  calc.fn = "calculateRiskRewardRatio" =>
    /\ calc.entryPrice # calc.stopLossPrice
         => calc.out[1] * Abs(calc.entryPrice - calc.stopLossPrice)
              = Abs(calc.takeProfitPrice - calc.entryPrice) * calc.out[2]
    /\ calc.entryPrice = calc.stopLossPrice => calc.out = <<0, 1>>
    /\ calc.out[1] >= 0
    /\ calc.out[2] > 0

C24_Witness ==
  /\ calc.fn = "calculateRiskRewardRatio"
  /\ calc.takeProfitPrice < calc.entryPrice
  /\ calc.entryPrice < calc.stopLossPrice
  /\ calc.out[2] > 1
  /\ calc.out[1] > calc.out[2]

(* C22: calculatePositionSize returns the floor of
   accountValue * riskPercentage / 100 / |entryPrice - stopLossPrice| when the
   two prices differ and 0 when they are equal. *)
C22_PositionSize ==
  calc.fn = "calculatePositionSize" =>
    IF calc.entryPrice = calc.stopLossPrice THEN calc.out = 0
    ELSE calc.out = (calc.accountValue * calc.riskPercentage)
                      \div (100 * Abs(calc.entryPrice - calc.stopLossPrice))

(* C23: calculateSharpeRatio returns 0 for an empty returns sequence and 0
   whenever the standard deviation of the excess returns is 0, as when all
   the returns are equal; it returns no NaN and no Infinity then. *)
C23_SharpeSentinel ==
  calc.fn = "calculateSharpeRatio" =>
    /\ Len(calc.returns) = 0 => calc.out = SharpeZero
    /\ (\A i, j \in 1..Len(calc.returns) : calc.returns[i] = calc.returns[j])
         => calc.out = SharpeZero

====
